---- MODULE Spec2Model ----
(***************************************************************************)
(* Maintenance status calculation engine of the THY maintenance system:    *)
(* status classification, the stochastic non-routine-finding generator,    *)
(* the hangar capacity tracker, the per-aircraft status calculator and the *)
(* selector of the most critical check (src/logic.py and the copies of the *)
(* same functions in src/app.py).                                          *)
(*                                                                         *)
(* Numbers.  Flight hours, cycles and day counts are integers, as the data *)
(* source produces them.  A progress value is kept exactly, as an integer  *)
(* number of 1/PScale percent; the reported progress_percent, rounded to   *)
(* one decimal, is an integer number of tenths of a percent.  The daily    *)
(* flight-hour rate has one decimal and is an integer number of tenths.    *)
(* Dates are day ordinals: strptime maps "YYYY-MM-DD" to a day and the     *)
(* code only subtracts dates and adds day counts to them.                  *)
(***************************************************************************)
EXTENDS Integers, Sequences, FiniteSets, TLC

VARIABLES
    df,              \* the fleet table: number of rows per (Kategori, Durum)
    aircraft_data,   \* the aircraft record handed to the calculator
    current_date,    \* the reference date (day ordinal)
    hangar_status,   \* None, or the HangarStatus computed from df
    rng,             \* state of the process-wide generator of module random
    salt,            \* the string-hash salt of the running process
    call,            \* the operation called last, with its arguments
    ret,             \* what that operation returned
    calls,           \* number of calculator calls made so far
    threads,         \* the calculator calls in progress on concurrent threads
    history          \* findings returned earlier, kept to compare calls

vars == <<df, aircraft_data, current_date, hangar_status, rng, salt, call, ret,
          calls, threads, history>>

----------------------------------------------------------------------------
(* Python values *)

\* An Optional value is a sequence of length 0 (None) or 1.
None == <<>>
Some(x) == <<x>>
IsNone(o) == Len(o) = 0
Value(o) == o[1]

Max(a, b) == IF a >= b THEN a ELSE b
Min(a, b) == IF a <= b THEN a ELSE b

\* round(n / d) for d > 0, ties to the even neighbour, as round() does on a
\* value that is exact.
RoundHalfEven(n, d) ==
    LET fl == n \div d
        rem == n - fl * d
    IN  IF 2 * rem > d \/ (2 * rem = d /\ fl % 2 = 1) THEN fl + 1 ELSE fl

\* int(n / d) for d > 0: truncation toward zero.
TruncDiv(n, d) == IF n >= 0 THEN n \div d ELSE -((-n) \div d)

\* A dict is the sequence of its (key, value) items in insertion order.
DictKeys(d) == {d[i][1] : i \in 1..Len(d)}
DictGet(d, k) == d[CHOOSE i \in 1..Len(d) : d[i][1] = k][2]

----------------------------------------------------------------------------
(* Constants *)

MAINTENANCE_LIMITS ==
    [A |-> [fh_limit |-> 600, fc_limit |-> 400, duration_days |-> 1],
     B |-> [days_limit |-> 180, duration_days |-> 3],
     C |-> [fh_limit |-> 6000, days_limit |-> 730, duration_days |-> 7],
     D |-> [days_limit |-> 2190, duration_days |-> 30]]

HANGAR_CAPACITY == [wide_body |-> 5, narrow_body |-> 12, total |-> 15]

\* Probabilities in percent.
STOCHASTIC_PARAMS ==
    [non_routine_probability |-> 15,
     min_delay_days |-> 1,
     max_delay_days |-> 3,
     corrosion_probability |-> 8,
     fatigue_crack_probability |-> 5,
     system_failure_probability |-> 2]

\* One percent of progress.  Every limit divides 100 * PScale, so that
\* (used / limit) * 100 is an integer number of 1/PScale percent.
PScale == 2190 * 6

\* (used / limit) * 100
Pct(used, limit) == used * ((100 * PScale) \div limit)

Categories == {"WIDE", "NARROW", "CARGO"}
\* "Aktif" and "Bakımda" of the source.
Durumlar == {"Aktif", "Bakimda"}

\* A category string that is none of the three: check_hangar_availability
\* takes any string and sends it to its else branch.
OtherCategories == {"REGIONAL"}

----------------------------------------------------------------------------
(* Status classification *)

get_status_level_strict(progress) ==
    IF progress > 90 * PScale THEN "CRITICAL"
    ELSE IF progress > 75 * PScale THEN "WARNING"
    ELSE "OK"

get_status_level(progress) ==
    IF progress >= 90 * PScale THEN "CRITICAL"
    ELSE IF progress >= 75 * PScale THEN "WARNING"
    ELSE "OK"

----------------------------------------------------------------------------
(* Hangar capacity *)

RowKinds == Categories \X Durumlar

RECURSIVE SumRows(_, _)
SumRows(d, S) ==
    IF S = {} THEN 0
    ELSE LET k == CHOOSE x \in S : TRUE
         IN  d[k] + SumRows(d, S \ {k})

\* The rows of the given categories, whatever their Durum.
AllRows(d, cats) == SumRows(d, {k \in RowKinds : k[1] \in cats})

\* len(d[...]) for the rows of the given categories that are in maintenance.
MaintenanceRows(d, cats) == SumRows(d, {k \in RowKinds : k[1] \in cats /\ k[2] = "Bakimda"})

HangarStatus(wide, narrow, total, full) ==
    [wide_body_count |-> wide,
     narrow_body_count |-> narrow,
     total_count |-> total,
     wide_body_available |-> HANGAR_CAPACITY.wide_body - wide,
     narrow_body_available |-> HANGAR_CAPACITY.narrow_body - narrow,
     utilization_percent |-> RoundHalfEven(total * 100 * 10, HANGAR_CAPACITY.total),
     is_full |-> full]

is_full_wide_only(wide_body_count, total_count) ==
    wide_body_count >= HANGAR_CAPACITY.wide_body

logic_is_full(wide_body_count, total_count) ==
    \/ wide_body_count >= HANGAR_CAPACITY.wide_body
    \/ total_count >= HANGAR_CAPACITY.total

app_is_full(wide_body_count, total_count) ==
    wide_body_count >= HANGAR_CAPACITY.wide_body

logic_calculate_hangar_status(d) ==
    LET wide_body_count == MaintenanceRows(d, {"WIDE", "CARGO"})
        narrow_body_count == MaintenanceRows(d, {"NARROW"})
        total_count == MaintenanceRows(d, Categories)
    IN  HangarStatus(wide_body_count, narrow_body_count, total_count,
                     logic_is_full(wide_body_count, total_count))

app_calculate_hangar_status(d) ==
    LET wide_body_count == MaintenanceRows(d, {"WIDE", "CARGO"})
        narrow_body_count == MaintenanceRows(d, {"NARROW"})
        total_count == MaintenanceRows(d, Categories)
    IN  HangarStatus(wide_body_count, narrow_body_count, total_count,
                     app_is_full(wide_body_count, total_count))

CapacityText(k) == "(" \o ToString(k) \o "/" \o ToString(k) \o ")"

\* A tracker that refuses every category once the hangar is flagged full.
check_hangar_availability_by_is_full(hs, aircraft_category) ==
    IF hs.is_full THEN <<FALSE, "Hangar kapasitesi dolu">>
    ELSE IF aircraft_category \in {"WIDE", "CARGO"}
    THEN <<hs.wide_body_available > 0, "Wide-body">>
    ELSE <<hs.narrow_body_available > 0, "Narrow-body">>

\* logic.py: returns (available, reason).
check_hangar_availability(hs, aircraft_category) ==
    IF aircraft_category \in {"WIDE", "CARGO"}
    THEN IF hs.wide_body_available <= 0
         THEN <<FALSE, "Wide-body hangar kapasitesi dolu " \o CapacityText(HANGAR_CAPACITY.wide_body)>>
         ELSE <<TRUE, "Wide-body slot musait (" \o ToString(hs.wide_body_available) \o " bos)">>
    ELSE IF hs.narrow_body_available <= 0
         THEN <<FALSE, "Narrow-body hangar kapasitesi dolu " \o CapacityText(HANGAR_CAPACITY.narrow_body)>>
         ELSE <<TRUE, "Narrow-body slot musait (" \o ToString(hs.narrow_body_available) \o " bos)">>

\* app.py: the same decision, worded in English.
app_check_hangar_availability(hs, aircraft_category) ==
    IF aircraft_category \in {"WIDE", "CARGO"}
    THEN IF hs.wide_body_available <= 0
         THEN <<FALSE, "Wide-body hangar full " \o CapacityText(HANGAR_CAPACITY.wide_body)>>
         ELSE <<TRUE, "Wide-body slot available (" \o ToString(hs.wide_body_available) \o " free)">>
    ELSE IF hs.narrow_body_available <= 0
         THEN <<FALSE, "Narrow-body hangar full">>
         ELSE <<TRUE, "Narrow-body slot available (" \o ToString(hs.narrow_body_available) \o " free)">>

----------------------------------------------------------------------------
(* The generator of module random, and str hashing *)

\* random.Random is a deterministic generator: its state after seed(n) is a
\* function of n, and every draw advances the state and returns a function
\* of the new state.  The model keeps that and shrinks the state space to
\* RngMod states (a full-period linear congruential step).
RngMod == 16
RngStates == 0..(RngMod - 1)
RngNext(s) == (5 * s + 7) % RngMod

\* State after random.seed(n).
random_seed(n) == n % RngMod

\* random.random(): the variate is value / RngMod, in [0, 1).
random_random(s) == [state |-> RngNext(s), value |-> RngNext(s)]

\* variate < pct / 100
BelowPercent(value, pct) == value * 100 < pct * RngMod

\* random.choice over n items: the index drawn, 0 .. n-1.
random_choice(s, n) == [state |-> RngNext(s), value |-> (RngNext(s) * n) \div RngMod]

\* random.randint(lo, hi)
random_randint(s, lo, hi) ==
    [state |-> RngNext(s), value |-> lo + (RngNext(s) * (hi - lo + 1)) \div RngMod]

\* Width of the model's hash words (the source reduces hash() modulo 2**32).
HashBits == 16

CheckLetters == <<"A", "B", "C", "D">>
LetterIndex(x) == CHOOSE i \in 1..4 : CheckLetters[i] = x

\* hash() of the string tail + letter.  A str hash is a function of the
\* string and of the salt the interpreter draws when the process starts
\* (PYTHONHASHSEED); it may be negative.
StrHash(tail, letter, slt) == (tail * 4 + LetterIndex(letter)) * 7 + slt * 5 - 2 ^ (HashBits - 1)

----------------------------------------------------------------------------
(* Stochastic finding generator *)

NonRoutineFinding(has_finding, finding_type, extra_days) ==
    [has_finding |-> has_finding, finding_type |-> finding_type, extra_days |-> extra_days]

NoFinding == NonRoutineFinding(FALSE, "NONE", 0)

\* logic.py: simulate_non_routine_finding(seed=None), run from generator
\* state s.  Returns the finding and the generator state it leaves.
logic_simulate_non_routine_finding(seed, s) ==
    LET s0 == IF IsNone(seed) THEN s ELSE random_seed(Value(seed))
        first == random_random(s0)
    IN  IF BelowPercent(first.value, STOCHASTIC_PARAMS.non_routine_probability)
        THEN LET roll == random_random(first.state)
                 corrosion == STOCHASTIC_PARAMS.corrosion_probability
                 fatigue == corrosion + STOCHASTIC_PARAMS.fatigue_crack_probability
                 failure == fatigue + STOCHASTIC_PARAMS.system_failure_probability
                 finding_type ==
                     IF BelowPercent(roll.value, corrosion) THEN "CORROSION"
                     ELSE IF BelowPercent(roll.value, fatigue) THEN "FATIGUE_CRACK"
                     ELSE IF BelowPercent(roll.value, failure) THEN "SYSTEM_FAILURE"
                     ELSE "STRUCTURAL_DAMAGE"
                 extra == random_randint(roll.state, STOCHASTIC_PARAMS.min_delay_days,
                                         STOCHASTIC_PARAMS.max_delay_days)
             IN  [finding |-> NonRoutineFinding(TRUE, finding_type, extra.value),
                  rng |-> extra.state]
        ELSE [finding |-> NoFinding, rng |-> first.state]

AppFindingTypes == <<"CORROSION", "FATIGUE_CRACK", "SYSTEM_FAILURE">>

\* The seed app.py gives the generator for a tail and a check letter.
AppSeed(tail, letter, slt) == StrHash(tail, letter, slt) % (2 ^ HashBits)

\* app.py: simulate_non_routine_finding(aircraft_tail) after the reseeding,
\* run from generator state s0.
AppDraws(s0) ==
    LET first == random_random(s0)
    IN  IF BelowPercent(first.value, STOCHASTIC_PARAMS.non_routine_probability)
        THEN LET pick == random_choice(first.state, Len(AppFindingTypes))
                 extra == random_randint(pick.state, STOCHASTIC_PARAMS.min_delay_days,
                                         STOCHASTIC_PARAMS.max_delay_days)
             IN  [finding |-> NonRoutineFinding(TRUE, AppFindingTypes[pick.value + 1], extra.value),
                  rng |-> extra.state]
        ELSE [finding |-> NoFinding, rng |-> first.state]

\* app.py: simulate_non_routine_finding(tail + letter) in a process whose
\* hash salt is slt.
app_simulate_non_routine_finding(tail, letter, slt) ==
    AppDraws(random_seed(AppSeed(tail, letter, slt)))

----------------------------------------------------------------------------
(* Maintenance status calculator *)

\* A status whose duration ignores the finding.
MaintenanceStatus_planned_duration(check_type, remaining_fh, remaining_fc, remaining_days, progress_percent, status, action_required, next_due_date, base_duration_days, finding, is_deferred, deferral_reason) ==
    [check_type |-> check_type,
     remaining_fh |-> remaining_fh,
     remaining_fc |-> remaining_fc,
     remaining_days |-> remaining_days,
     progress_percent |-> progress_percent,
     status |-> status,
     action_required |-> action_required,
     next_due_date |-> next_due_date,
     base_duration_days |-> base_duration_days,
     adjusted_duration_days |-> base_duration_days,
     non_routine_finding |-> finding,
     is_deferred |-> is_deferred,
     deferral_reason |-> deferral_reason]

MaintenanceStatus(check_type, remaining_fh, remaining_fc, remaining_days, progress_percent, status, action_required, next_due_date, base_duration_days, finding, is_deferred, deferral_reason) ==
    [check_type |-> check_type,
     remaining_fh |-> remaining_fh,
     remaining_fc |-> remaining_fc,
     remaining_days |-> remaining_days,
     progress_percent |-> progress_percent,
     status |-> status,
     action_required |-> action_required,
     next_due_date |-> next_due_date,
     base_duration_days |-> base_duration_days,
     adjusted_duration_days |-> base_duration_days + finding.extra_days,
     non_routine_finding |-> finding,
     is_deferred |-> is_deferred,
     deferral_reason |-> deferral_reason]

\* round(x, 1) of a progress value, in tenths of a percent.
Round1(progress) == RoundHalfEven(10 * progress, PScale)

\* The difference taken the other way round.
days_since_last_maint_reversed(ac, date) == ac.SonBakimTarihi - date

days_since_last_maint(ac, date) == date - ac.SonBakimTarihi
days_since_d_check(ac, date) == date - ac.SonDCheckTarihi

\* An A check driven by the flight hours alone.
a_progress_fh_only(ac) == Pct(ac.SonBakimdanBeriFH, MAINTENANCE_LIMITS.A.fh_limit)

a_progress(ac) ==
    Max(Pct(ac.SonBakimdanBeriFH, MAINTENANCE_LIMITS.A.fh_limit),
        Pct(ac.SonBakimdanBeriFC, MAINTENANCE_LIMITS.A.fc_limit))

\* An estimate that guards the division against a zero rate only.
a_days_remaining_zero_guard(ac) ==
    IF ac.GunlukOrtFH # 0
    THEN TruncDiv((MAINTENANCE_LIMITS.A.fh_limit - ac.SonBakimdanBeriFH) * 10, ac.GunlukOrtFH)
    ELSE 999

a_days_remaining(ac) ==
    IF ac.GunlukOrtFH > 0
    THEN TruncDiv((MAINTENANCE_LIMITS.A.fh_limit - ac.SonBakimdanBeriFH) * 10, ac.GunlukOrtFH)
    ELSE 999

b_progress(ac, date) ==
    Min(Pct(days_since_last_maint(ac, date), MAINTENANCE_LIMITS.B.days_limit), 100 * PScale)

\* A C check that takes the A-check flight hours as they are.
logic_c_progress_single_fh(ac, date) ==
    LET c_fh_used == ac.SonBakimdanBeriFH
        c_fh_progress == Min(Pct(c_fh_used, MAINTENANCE_LIMITS.C.fh_limit), 100 * PScale)
        c_days_progress ==
            Min(Pct(days_since_last_maint(ac, date), MAINTENANCE_LIMITS.C.days_limit), 100 * PScale)
    IN  Max(c_fh_progress, c_days_progress)

logic_c_progress(ac, date) ==
    LET c_fh_used == ac.SonBakimdanBeriFH * 2
        c_fh_progress == Min(Pct(c_fh_used, MAINTENANCE_LIMITS.C.fh_limit), 100 * PScale)
        c_days_progress ==
            Min(Pct(days_since_last_maint(ac, date), MAINTENANCE_LIMITS.C.days_limit), 100 * PScale)
    IN  Max(c_fh_progress, c_days_progress)

app_c_progress(ac, date) ==
    LET c_fh_used == ac.SonBakimdanBeriFH * 2
    IN  Max(Pct(c_fh_used, MAINTENANCE_LIMITS.C.fh_limit),
            Pct(days_since_last_maint(ac, date), MAINTENANCE_LIMITS.C.days_limit))

\* A D check whose progress is not capped.
d_progress_uncapped(ac, date) ==
    Pct(days_since_d_check(ac, date), MAINTENANCE_LIMITS.D.days_limit)

d_progress(ac, date) ==
    Min(Pct(days_since_d_check(ac, date), MAINTENANCE_LIMITS.D.days_limit), 100 * PScale)

\* The deferral thresholds of the C and D checks, in percent.
DeferralThreshold == [C |-> 85, D |-> 80]

\* check_hangar_availability of the implementation impl ("logic" or "app").
HangarAvailability(impl, hs, category) ==
    IF impl = "app" THEN app_check_hangar_availability(hs, category)
    ELSE check_hangar_availability(hs, category)

Deferral_no_threshold(impl, hs, progress, threshold, category) ==
    IF ~IsNone(hs)
    THEN LET r == HangarAvailability(impl, Value(hs), category)
         IN  IF ~r[1] THEN <<TRUE, r[2]>> ELSE <<FALSE, "">>
    ELSE <<FALSE, "">>

\* "if hangar_status and progress >= threshold: ..." of the C and D checks:
\* (is_deferred, deferral_reason).  A HangarStatus object is always truthy.
Deferral(impl, hs, progress, threshold, category) ==
    IF ~IsNone(hs) /\ progress >= threshold * PScale
    THEN LET r == HangarAvailability(impl, Value(hs), category)
         IN  IF ~r[1] THEN <<TRUE, r[2]>> ELSE <<FALSE, "">>
    ELSE <<FALSE, "">>

StatusA(ac, date, finding) ==
    MaintenanceStatus("A Check",
        Some(MAINTENANCE_LIMITS.A.fh_limit - ac.SonBakimdanBeriFH),
        Some(MAINTENANCE_LIMITS.A.fc_limit - ac.SonBakimdanBeriFC),
        a_days_remaining(ac),
        Round1(Min(a_progress(ac), 100 * PScale)),
        get_status_level(a_progress(ac)),
        a_progress(ac) >= 90 * PScale,
        date + a_days_remaining(ac),
        MAINTENANCE_LIMITS.A.duration_days, finding, FALSE, "")

\* A B check whose due date is pushed back by the finding's extra days.
StatusB_due_after_repair(ac, date, finding) ==
    LET b_days_remaining == Max(0, MAINTENANCE_LIMITS.B.days_limit - days_since_last_maint(ac, date))
    IN  MaintenanceStatus("B Check / Phased Maintenance", None, None,
            b_days_remaining,
            Round1(b_progress(ac, date)),
            get_status_level(b_progress(ac, date)),
            b_progress(ac, date) >= 90 * PScale,
            date + b_days_remaining + finding.extra_days,
            MAINTENANCE_LIMITS.B.duration_days, finding, FALSE, "")

StatusB(ac, date, finding) ==
    LET b_days_remaining == Max(0, MAINTENANCE_LIMITS.B.days_limit - days_since_last_maint(ac, date))
    IN  MaintenanceStatus("B Check / Phased Maintenance", None, None,
            b_days_remaining,
            Round1(b_progress(ac, date)),
            get_status_level(b_progress(ac, date)),
            b_progress(ac, date) >= 90 * PScale,
            date + b_days_remaining,
            MAINTENANCE_LIMITS.B.duration_days, finding, FALSE, "")

\* A C check that asks for no action once it is deferred.
logic_StatusC_no_action_when_deferred(ac, date, hs, finding) ==
    LET c_fh_remaining == Max(0, MAINTENANCE_LIMITS.C.fh_limit - ac.SonBakimdanBeriFH * 2)
        c_days_remaining == Max(0, MAINTENANCE_LIMITS.C.days_limit - days_since_last_maint(ac, date))
        c_progress == logic_c_progress(ac, date)
        deferral == Deferral("logic", hs, c_progress, DeferralThreshold.C, ac.Kategori)
    IN  MaintenanceStatus("C Check", Some(c_fh_remaining), None,
            c_days_remaining,
            Round1(c_progress),
            IF deferral[1] THEN "DEFERRED" ELSE get_status_level(c_progress),
            c_progress >= 85 * PScale /\ ~deferral[1],
            date + c_days_remaining,
            MAINTENANCE_LIMITS.C.duration_days, finding, deferral[1], deferral[2])

logic_StatusC(ac, date, hs, finding) ==
    LET c_fh_remaining == Max(0, MAINTENANCE_LIMITS.C.fh_limit - ac.SonBakimdanBeriFH * 2)
        c_days_remaining == Max(0, MAINTENANCE_LIMITS.C.days_limit - days_since_last_maint(ac, date))
        c_progress == logic_c_progress(ac, date)
        deferral == Deferral("logic", hs, c_progress, DeferralThreshold.C, ac.Kategori)
    IN  MaintenanceStatus("C Check", Some(c_fh_remaining), None,
            c_days_remaining,
            Round1(c_progress),
            IF deferral[1] THEN "DEFERRED" ELSE get_status_level(c_progress),
            c_progress >= 85 * PScale,
            date + c_days_remaining,
            MAINTENANCE_LIMITS.C.duration_days, finding, deferral[1], deferral[2])

app_StatusC_uncapped_report(ac, date, hs, finding) ==
    LET c_fh_remaining == Max(0, MAINTENANCE_LIMITS.C.fh_limit - ac.SonBakimdanBeriFH * 2)
        c_days_remaining == Max(0, MAINTENANCE_LIMITS.C.days_limit - days_since_last_maint(ac, date))
        c_progress == app_c_progress(ac, date)
        deferral == Deferral("app", hs, c_progress, DeferralThreshold.C, ac.Kategori)
    IN  MaintenanceStatus("C Check", Some(c_fh_remaining), None,
            c_days_remaining,
            Round1(c_progress),
            IF deferral[1] THEN "DEFERRED" ELSE get_status_level(c_progress),
            c_progress >= 85 * PScale,
            date + c_days_remaining,
            MAINTENANCE_LIMITS.C.duration_days, finding, deferral[1], deferral[2])

app_StatusC(ac, date, hs, finding) ==
    LET c_fh_remaining == Max(0, MAINTENANCE_LIMITS.C.fh_limit - ac.SonBakimdanBeriFH * 2)
        c_days_remaining == Max(0, MAINTENANCE_LIMITS.C.days_limit - days_since_last_maint(ac, date))
        c_progress == app_c_progress(ac, date)
        deferral == Deferral("app", hs, c_progress, DeferralThreshold.C, ac.Kategori)
    IN  MaintenanceStatus("C Check", Some(c_fh_remaining), None,
            c_days_remaining,
            Round1(Min(c_progress, 100 * PScale)),
            IF deferral[1] THEN "DEFERRED" ELSE get_status_level(c_progress),
            c_progress >= 85 * PScale,
            date + c_days_remaining,
            MAINTENANCE_LIMITS.C.duration_days, finding, deferral[1], deferral[2])

StatusD_no_override(impl, ac, date, hs, finding) ==
    LET d_days_remaining == Max(0, MAINTENANCE_LIMITS.D.days_limit - days_since_d_check(ac, date))
        deferral == Deferral(impl, hs, d_progress(ac, date), DeferralThreshold.D, ac.Kategori)
    IN  MaintenanceStatus("D Check (Heavy Maintenance)", None, None,
            d_days_remaining,
            Round1(d_progress(ac, date)),
            get_status_level(d_progress(ac, date)),
            d_progress(ac, date) >= 80 * PScale,
            date + d_days_remaining,
            MAINTENANCE_LIMITS.D.duration_days, finding, deferral[1], deferral[2])

\* The D check is computed alike by logic.py and app.py, but for the wording
\* of the deferral reason.
StatusD_not_for_in_maintenance(impl, ac, date, hs, finding) ==
    LET d_days_remaining == Max(0, MAINTENANCE_LIMITS.D.days_limit - days_since_d_check(ac, date))
        deferral == IF ac.Durum = "Bakimda" THEN <<FALSE, "">>
                    ELSE Deferral(impl, hs, d_progress(ac, date), DeferralThreshold.D, ac.Kategori)
    IN  MaintenanceStatus("D Check (Heavy Maintenance)", None, None,
            d_days_remaining,
            Round1(d_progress(ac, date)),
            IF deferral[1] THEN "DEFERRED" ELSE get_status_level(d_progress(ac, date)),
            d_progress(ac, date) >= 80 * PScale,
            date + d_days_remaining,
            MAINTENANCE_LIMITS.D.duration_days, finding, deferral[1], deferral[2])

StatusD(impl, ac, date, hs, finding) ==
    LET d_days_remaining == Max(0, MAINTENANCE_LIMITS.D.days_limit - days_since_d_check(ac, date))
        deferral == Deferral(impl, hs, d_progress(ac, date), DeferralThreshold.D, ac.Kategori)
    IN  MaintenanceStatus("D Check (Heavy Maintenance)", None, None,
            d_days_remaining,
            Round1(d_progress(ac, date)),
            IF deferral[1] THEN "DEFERRED" ELSE get_status_level(d_progress(ac, date)),
            d_progress(ac, date) >= 80 * PScale,
            date + d_days_remaining,
            MAINTENANCE_LIMITS.D.duration_days, finding, deferral[1], deferral[2])

\* logic.py: calculate_maintenance_status, run from generator state s.
\* Returns the results dict and the generator state the call leaves.
logic_calculate_maintenance_status(ac, date, hs, apply_stochastic, s) ==
    LET a == IF apply_stochastic THEN logic_simulate_non_routine_finding(None, s)
             ELSE [finding |-> NoFinding, rng |-> s]
        b == IF apply_stochastic THEN logic_simulate_non_routine_finding(None, a.rng)
             ELSE [finding |-> NoFinding, rng |-> s]
        c == IF apply_stochastic THEN logic_simulate_non_routine_finding(None, b.rng)
             ELSE [finding |-> NoFinding, rng |-> s]
        d == IF apply_stochastic THEN logic_simulate_non_routine_finding(None, c.rng)
             ELSE [finding |-> NoFinding, rng |-> s]
    IN  [results |-> << <<"A", StatusA(ac, date, a.finding)>>,
                        <<"B", StatusB(ac, date, b.finding)>>,
                        <<"C", logic_StatusC(ac, date, hs, c.finding)>>,
                        <<"D", StatusD("logic", ac, date, hs, d.finding)>> >>,
         rng |-> d.rng]

\* app.py: the dict calculate_maintenance_status builds, given the findings
\* drawn for A, B, C and D.
app_results(ac, date, hs, findings) ==
    << <<"A", StatusA(ac, date, findings[1])>>,
       <<"B", StatusB(ac, date, findings[2])>>,
       <<"C", app_StatusC(ac, date, hs, findings[3])>>,
       <<"D", StatusD("app", ac, date, hs, findings[4])>> >>

\* app.py: calculate_maintenance_status in a process whose hash salt is slt,
\* run from generator state s (every draw follows a reseeding).
app_calculate_maintenance_status(ac, date, hs, apply_stochastic, slt, s) ==
    LET sim(letter) == IF apply_stochastic
                       THEN app_simulate_non_routine_finding(ac.KuyrukNo, letter, slt)
                       ELSE [finding |-> NoFinding, rng |-> s]
    IN  [results |-> app_results(ac, date, hs,
                                 [i \in 1..4 |-> sim(CheckLetters[i]).finding]),
         rng |-> sim("D").rng]

----------------------------------------------------------------------------
(* Critical-selector *)

\* The loop of get_most_critical_maintenance over the items from index i on,
\* with (critical_type, critical) = best so far (None before the first item).
RECURSIVE MostCriticalFrom(_, _, _)
MostCriticalFrom(items, i, best) ==
    IF i > Len(items) THEN best
    ELSE IF IsNone(best) \/ items[i][2].progress_percent > Value(best)[2].progress_percent
         THEN MostCriticalFrom(items, i + 1, Some(items[i]))
         ELSE MostCriticalFrom(items, i + 1, best)

\* Returns (critical_type, critical) of a non-empty dict.
get_most_critical_maintenance(maintenance_results) ==
    Value(MostCriticalFrom(maintenance_results, 1, None))

----------------------------------------------------------------------------
(* Inputs *)

\* Largest whole percentage classified.
MaxPercent == 120
\* Progress values one unit around every whole percentage.
ProgressValues == {k * PScale + e : k \in 0..MaxPercent, e \in {-1, 0, 1}}

\* Rows loaded into the fleet table, per kind.
MaxWide == 6
MaxCargo == 1
MaxNarrow == 13
MaxActive == 1
MaxRows(k) ==
    IF k[2] = "Aktif" THEN MaxActive
    ELSE IF k[1] = "WIDE" THEN MaxWide
    ELSE IF k[1] = "CARGO" THEN MaxCargo
    ELSE MaxNarrow

EmptyFleet == [k \in RowKinds |-> 0]
Fleet(wide, cargo, narrow) ==
    [k \in RowKinds |-> IF k[2] = "Aktif" THEN 1
                        ELSE IF k[1] = "WIDE" THEN wide
                        ELSE IF k[1] = "CARGO" THEN cargo
                        ELSE narrow]

\* The test aircraft of logic.py (TC-JJK25): 520 FH, 340 FC, 12.5 FH a day,
\* last maintenance 61 days and last D check 1296 days before the
\* reference date.
TestAircraft ==
    [KuyrukNo |-> 1, Kategori |-> "WIDE", Durum |-> "Aktif",
     SonBakimdanBeriFH |-> 520, SonBakimdanBeriFC |-> 340,
     SonBakimTarihi |-> -61, SonDCheckTarihi |-> -1296,
     GunlukOrtFH |-> 125]

Idle ==
    /\ df = EmptyFleet
    /\ aircraft_data = TestAircraft
    /\ current_date = 0
    /\ hangar_status = None
    /\ rng = 0
    /\ salt = 0
    /\ call = [fn |-> "start"]
    /\ ret = None
    /\ calls = 0
    /\ threads = <<>>
    /\ history = <<>>

----------------------------------------------------------------------------
(* Classification of a progress value *)

InitClassify == Idle

GetStatusLevel ==
    \E p \in ProgressValues :
        /\ call' = [fn |-> "get_status_level", progress |-> p]
        /\ ret' = get_status_level(p)
        /\ UNCHANGED <<df, aircraft_data, current_date, hangar_status, rng, salt,
                       calls, threads, history>>

SpecClassify == InitClassify /\ [][GetStatusLevel]_vars

----------------------------------------------------------------------------
(* Hangar capacity tracking over a fleet *)

InitHangar == Idle

\* The data source adds a row to the fleet table, before the table is used.
LoadRow ==
    \E k \in RowKinds :
        /\ call.fn = "start"
        /\ df[k] < MaxRows(k)
        /\ df' = [df EXCEPT ![k] = @ + 1]
        /\ UNCHANGED <<aircraft_data, current_date, hangar_status, rng, salt, call, ret,
                       calls, threads, history>>

CalculateHangarStatus ==
    /\ call.fn = "start"
    /\ call' = [fn |-> "calculate_hangar_status", impl |-> "logic", df |-> df]
    /\ ret' = logic_calculate_hangar_status(df)
    /\ hangar_status' = Some(ret')
    /\ UNCHANGED <<df, aircraft_data, current_date, rng, salt, calls, threads, history>>

CalculateHangarStatusApp ==
    /\ call.fn = "start"
    /\ call' = [fn |-> "calculate_hangar_status", impl |-> "app", df |-> df]
    /\ ret' = app_calculate_hangar_status(df)
    /\ hangar_status' = Some(ret')
    /\ UNCHANGED <<df, aircraft_data, current_date, rng, salt, calls, threads, history>>

CheckHangarAvailability ==
    \E category \in Categories \cup OtherCategories :
        /\ ~IsNone(hangar_status)
        /\ call' = [fn |-> "check_hangar_availability", impl |-> "logic",
                    hangar_status |-> Value(hangar_status),
                    aircraft_category |-> category]
        /\ ret' = check_hangar_availability(Value(hangar_status), category)
        /\ UNCHANGED <<df, aircraft_data, current_date, hangar_status, rng, salt,
                       calls, threads, history>>

CheckHangarAvailabilityApp ==
    \E category \in Categories \cup OtherCategories :
        /\ ~IsNone(hangar_status)
        /\ call' = [fn |-> "check_hangar_availability", impl |-> "app",
                    hangar_status |-> Value(hangar_status),
                    aircraft_category |-> category]
        /\ ret' = app_check_hangar_availability(Value(hangar_status), category)
        /\ UNCHANGED <<df, aircraft_data, current_date, hangar_status, rng, salt,
                       calls, threads, history>>

NextHangar ==
    \/ LoadRow
    \/ CalculateHangarStatus
    \/ CalculateHangarStatusApp
    \/ CheckHangarAvailability
    \/ CheckHangarAvailabilityApp

SpecHangar == InitHangar /\ [][NextHangar]_vars

----------------------------------------------------------------------------
(* Status calculation for one aircraft *)

\* Hash salts a process may draw.
MaxSalt == 1
Salts == 0..MaxSalt

\* Counter values at and around the thresholds of the four checks.
FHValues == {0, 450, 520, 539, 540, 600, 650, 2549, 2550, 2700, 3001}
FCValues == {0, 300, 340, 359, 360, 400, 450}
Rates == {-10, 0, 80, 125}
DaysSinceMaint == {-1, 0, 61, 135, 162, 180, 547, 548, 620, 621, 657, 730, 800}
DaysSinceDCheck == {-1, 0, 1296, 1642, 1643, 1751, 1752, 1971, 2190, 2500}

\* The test aircraft with the counters of one group of checks changed: those
\* of the A check, those of the B and C checks, those of the C and D checks.
SliceA ==
    {[TestAircraft EXCEPT !.SonBakimdanBeriFH = fh, !.SonBakimdanBeriFC = fc,
                          !.GunlukOrtFH = rate] :
        fh \in FHValues, fc \in FCValues, rate \in Rates}
SliceBC ==
    {[TestAircraft EXCEPT !.SonBakimdanBeriFH = fh, !.SonBakimTarihi = -m] :
        fh \in FHValues, m \in DaysSinceMaint}
SliceD ==
    {[TestAircraft EXCEPT !.SonBakimTarihi = -m, !.SonDCheckTarihi = -d] :
        m \in {61, 621}, d \in DaysSinceDCheck}

WithCategories(S) == {[a EXCEPT !.Kategori = category] : a \in S, category \in Categories}

EvalAircraft == WithCategories(SliceA \cup SliceBC \cup SliceD)

\* Aircraft whose C and D checks are past their deferral thresholds.
DueAircraft ==
    WithCategories({[TestAircraft EXCEPT !.SonBakimTarihi = -621, !.SonDCheckTarihi = -1752]})

\* A fleet whose wide-body slots are all taken, and one whose narrow-body
\* slots are.
EvalFleets == {Fleet(4, 1, 11), Fleet(4, 0, 12)}

\* A generator state from which the next draw yields a finding.
FindingState == CHOOSE s \in RngStates :
    BelowPercent(random_random(s).value, STOCHASTIC_PARAMS.non_routine_probability)

\* Every aircraft from one generator state and salt, and the aircraft that
\* are due from every generator state and salt.
InitEval ==
    /\ df \in EvalFleets
    /\ \/ aircraft_data \in EvalAircraft /\ rng = FindingState /\ salt = 0
       \/ aircraft_data \in DueAircraft /\ rng \in RngStates /\ salt \in Salts
    /\ current_date = 0
    /\ hangar_status = None
    /\ call = [fn |-> "start"]
    /\ ret = None
    /\ calls = 0
    /\ threads = <<>>
    /\ history = <<>>

\* Calculator calls made in one run.
MaxCalls == 1

Evaluate ==
    \E apply_stochastic \in BOOLEAN :
        LET r == logic_calculate_maintenance_status(aircraft_data, current_date,
                     hangar_status, apply_stochastic, rng)
        IN  /\ calls < MaxCalls
            /\ calls' = calls + 1
            /\ call' = [fn |-> "calculate_maintenance_status", impl |-> "logic",
                        hangar_status |-> hangar_status,
                        apply_stochastic |-> apply_stochastic]
            /\ ret' = r.results
            /\ rng' = r.rng
            /\ UNCHANGED <<df, aircraft_data, current_date, hangar_status, salt,
                           threads, history>>

EvaluateApp ==
    \E apply_stochastic \in BOOLEAN :
        LET r == app_calculate_maintenance_status(aircraft_data, current_date,
                     hangar_status, apply_stochastic, salt, rng)
        IN  /\ calls < MaxCalls
            /\ calls' = calls + 1
            /\ call' = [fn |-> "calculate_maintenance_status", impl |-> "app",
                        hangar_status |-> hangar_status,
                        apply_stochastic |-> apply_stochastic]
            /\ ret' = r.results
            /\ rng' = r.rng
            /\ UNCHANGED <<df, aircraft_data, current_date, hangar_status, salt,
                           threads, history>>

NextEval ==
    \/ CalculateHangarStatus
    \/ Evaluate
    \/ EvaluateApp

SpecEval == InitEval /\ [][NextEval]_vars

----------------------------------------------------------------------------
(* Selection of the most critical check *)

\* The orders in which a caller may insert the four items into the dict.
InsertionOrders ==
    {o \in [1..4 -> 1..4] : \A i, j \in 1..4 : i # j => o[i] # o[j]}

\* Every aircraft of the B/C and C/D groups, from one generator state.
InitCritical ==
    /\ df \in EvalFleets
    /\ aircraft_data \in SliceBC \cup SliceD
    /\ rng = FindingState
    /\ salt = 0
    /\ current_date = 0
    /\ hangar_status = None
    /\ call = [fn |-> "start"]
    /\ ret = None
    /\ calls = 0
    /\ threads = <<>>
    /\ history = <<>>

\* get_most_critical_maintenance on the four items just computed, put into
\* a dict in some order.
MostCritical ==
    \E o \in InsertionOrders :
        /\ call.fn = "calculate_maintenance_status"
        /\ call' = [fn |-> "get_most_critical_maintenance",
                    maintenance_results |-> [i \in 1..4 |-> ret[o[i]]]]
        /\ ret' = get_most_critical_maintenance(call'.maintenance_results)
        /\ UNCHANGED <<df, aircraft_data, current_date, hangar_status, rng, salt,
                       calls, threads, history>>

NextCritical ==
    \/ CalculateHangarStatus
    \/ Evaluate
    \/ EvaluateApp
    \/ MostCritical

SpecCritical == InitCritical /\ [][NextCritical]_vars

----------------------------------------------------------------------------
(* The finding generator across calls and across processes *)

MaxHistory == 2

\* Tail numbers of the aircraft evaluated.
Tails == {1, 2}

\* Integer seeds handed to logic.py's generator.
Seeds == {3, 4}

\* A process just started: the interpreter has drawn its hash salt and has
\* seeded the generator from the system's entropy.
InitGen ==
    /\ df = EmptyFleet
    /\ aircraft_data \in {[TestAircraft EXCEPT !.KuyrukNo = t] : t \in Tails}
    /\ current_date = 0
    /\ hangar_status = None
    /\ rng \in RngStates
    /\ salt \in Salts
    /\ call = [fn |-> "start"]
    /\ ret = None
    /\ calls = 0
    /\ threads = <<>>
    /\ history = <<>>

\* The call just made and what it returned, appended to the log.
Logged(fn, impl, key, result) ==
    history' = Append(history, [fn |-> fn, impl |-> impl, key |-> key, ret |-> result])

\* app.py: simulate_non_routine_finding(tail + letter)
SimulateApp ==
    \E tail \in Tails, letter \in {"A", "B", "C", "D"} :
        LET r == app_simulate_non_routine_finding(tail, letter, salt)
        IN  /\ Len(history) < MaxHistory
            /\ call' = [fn |-> "simulate_non_routine_finding", impl |-> "app",
                        aircraft_tail |-> <<tail, letter>>]
            /\ ret' = r.finding
            /\ rng' = r.rng
            /\ Logged("simulate_non_routine_finding", "app", <<tail, letter>>, r.finding)
            /\ UNCHANGED <<df, aircraft_data, current_date, hangar_status, salt,
                           calls, threads>>

\* logic.py: simulate_non_routine_finding(seed), seed an integer or None
SimulateLogic ==
    \E seed \in {None} \cup {Some(n) : n \in Seeds} :
        LET r == logic_simulate_non_routine_finding(seed, rng)
        IN  /\ Len(history) < MaxHistory
            /\ call' = [fn |-> "simulate_non_routine_finding", impl |-> "logic",
                        seed |-> seed]
            /\ ret' = r.finding
            /\ rng' = r.rng
            /\ Logged("simulate_non_routine_finding", "logic", seed, r.finding)
            /\ UNCHANGED <<df, aircraft_data, current_date, hangar_status, salt,
                           calls, threads>>

\* The process ends and another one starts: a new hash salt, a generator
\* seeded anew.  The log of the calls made so far is the observer's.
Restart ==
    /\ call.fn # "restart"
    /\ salt' \in Salts
    /\ rng' \in RngStates
    /\ call' = [fn |-> "restart"]
    /\ ret' = None
    /\ UNCHANGED <<df, aircraft_data, current_date, hangar_status, calls, threads,
                   history>>

NextGen ==
    \/ SimulateApp
    \/ SimulateLogic
    \/ Restart

SpecGen == InitGen /\ [][NextGen]_vars

----------------------------------------------------------------------------
(* Repeated evaluations in one process *)

\* logic.py: calculate_maintenance_status(aircraft_data, current_date,
\* hangar_status, apply_stochastic=True)
EvaluateStochastic ==
    LET r == logic_calculate_maintenance_status(aircraft_data, current_date,
                 hangar_status, TRUE, rng)
    IN  /\ Len(history) < MaxHistory
        /\ call' = [fn |-> "calculate_maintenance_status", impl |-> "logic",
                    hangar_status |-> hangar_status, apply_stochastic |-> TRUE]
        /\ ret' = r.results
        /\ rng' = r.rng
        /\ Logged("calculate_maintenance_status", "logic",
                  <<aircraft_data, hangar_status, current_date>>, r.results)
        /\ UNCHANGED <<df, aircraft_data, current_date, hangar_status, salt,
                       calls, threads>>

\* app.py: calculate_maintenance_status(aircraft_data, hangar_status,
\* apply_stochastic=True)
EvaluateAppStochastic ==
    LET r == app_calculate_maintenance_status(aircraft_data, current_date,
                 hangar_status, TRUE, salt, rng)
    IN  /\ Len(history) < MaxHistory
        /\ call' = [fn |-> "calculate_maintenance_status", impl |-> "app",
                    hangar_status |-> hangar_status, apply_stochastic |-> TRUE]
        /\ ret' = r.results
        /\ rng' = r.rng
        /\ Logged("calculate_maintenance_status", "app",
                  <<aircraft_data, hangar_status, current_date>>, r.results)
        /\ UNCHANGED <<df, aircraft_data, current_date, hangar_status, salt,
                       calls, threads>>

NextRepeat ==
    \/ EvaluateStochastic
    \/ EvaluateAppStochastic
    \/ SimulateApp
    \/ SimulateLogic

SpecRepeat == InitGen /\ [][NextRepeat]_vars

----------------------------------------------------------------------------
(* Two evaluations of app.py running in two threads of one process *)

\* A thread about to run calculate_maintenance_status(ac, apply_stochastic=True):
\* pc is its position inside simulate_non_routine_finding for the check
\* letter CheckLetters[letter].
Thread(ac) ==
    [aircraft_data |-> ac, pc |-> "seed", letter |-> 1, pick |-> 0,
     findings |-> <<>>, ret |-> None]

InitConc ==
    /\ df = EmptyFleet
    /\ aircraft_data = TestAircraft
    /\ current_date = 0
    /\ hangar_status = None
    /\ rng = FindingState
    /\ salt \in Salts
    /\ call = [fn |-> "start"]
    /\ ret = None
    /\ calls = 0
    /\ threads = <<Thread([TestAircraft EXCEPT !.KuyrukNo = 1]),
                    Thread([TestAircraft EXCEPT !.KuyrukNo = 2])>>
    /\ history = <<>>

\* The thread has its finding for the current letter and goes on to the next
\* letter, or to the return once D is done.
WithFinding(th, finding) ==
    [th EXCEPT !.findings = Append(@, finding),
               !.pick = 0,
               !.letter = IF th.letter < 4 THEN @ + 1 ELSE @,
               !.pc = IF th.letter < 4 THEN "seed" ELSE "return"]

\* random.seed(hash(aircraft_tail) % 2**32)
ThreadSeed(t) ==
    /\ threads[t].pc = "seed"
    /\ rng' = random_seed(AppSeed(threads[t].aircraft_data.KuyrukNo,
                                  CheckLetters[threads[t].letter], salt))
    /\ threads' = [threads EXCEPT ![t].pc = "random"]
    /\ UNCHANGED <<df, aircraft_data, current_date, hangar_status, salt, call, ret,
                   calls, history>>

\* if random.random() < non_routine_probability
ThreadRandom(t) ==
    LET first == random_random(rng)
    IN  /\ threads[t].pc = "random"
        /\ rng' = first.state
        /\ threads' = [threads EXCEPT ![t] =
               IF BelowPercent(first.value, STOCHASTIC_PARAMS.non_routine_probability)
               THEN [@ EXCEPT !.pc = "choice"]
               ELSE WithFinding(@, NoFinding)]
        /\ UNCHANGED <<df, aircraft_data, current_date, hangar_status, salt, call, ret,
                       calls, history>>

\* finding_type, description = random.choice(finding_types)
ThreadChoice(t) ==
    LET pick == random_choice(rng, Len(AppFindingTypes))
    IN  /\ threads[t].pc = "choice"
        /\ rng' = pick.state
        /\ threads' = [threads EXCEPT ![t].pc = "randint", ![t].pick = pick.value + 1]
        /\ UNCHANGED <<df, aircraft_data, current_date, hangar_status, salt, call, ret,
                       calls, history>>

\* extra_days = random.randint(min_delay_days, max_delay_days)
ThreadRandint(t) ==
    LET extra == random_randint(rng, STOCHASTIC_PARAMS.min_delay_days,
                                STOCHASTIC_PARAMS.max_delay_days)
    IN  /\ threads[t].pc = "randint"
        /\ rng' = extra.state
        /\ threads' = [threads EXCEPT ![t] =
               WithFinding(@, NonRoutineFinding(TRUE, AppFindingTypes[@.pick], extra.value))]
        /\ UNCHANGED <<df, aircraft_data, current_date, hangar_status, salt, call, ret,
                       calls, history>>

\* return results
ThreadReturn(t) ==
    /\ threads[t].pc = "return"
    /\ threads' = [threads EXCEPT ![t].pc = "done",
                                  ![t].ret = Some(app_results(threads[t].aircraft_data,
                                                              current_date, hangar_status,
                                                              threads[t].findings))]
    /\ UNCHANGED <<df, aircraft_data, current_date, hangar_status, rng, salt, call, ret,
                   calls, history>>

NextConc ==
    \E t \in 1..2 :
        \/ ThreadSeed(t)
        \/ ThreadRandom(t)
        \/ ThreadChoice(t)
        \/ ThreadRandint(t)
        \/ ThreadReturn(t)

SpecConc == InitConc /\ [][NextConc]_vars

----------------------------------------------------------------------------
(* Claims on the classification and on the hangar tracker *)

\* C1: for every progress value p, get_status_level(p) is CRITICAL exactly
\* when p >= 90, WARNING exactly when 75 <= p < 90 and OK exactly when
\* p < 75; the values 75 and 90 themselves belong to the higher tier.
C1_Classification ==
    call.fn = "get_status_level" =>
        /\ (ret = "CRITICAL") <=> (call.progress >= 90 * PScale)
        /\ (ret = "WARNING") <=> (75 * PScale <= call.progress /\ call.progress < 90 * PScale)
        /\ (ret = "OK") <=> (call.progress < 75 * PScale)
        /\ call.progress = 75 * PScale => ret = "WARNING"
        /\ call.progress = 90 * PScale => ret = "CRITICAL"

\* The boundary value 90 has been classified, as CRITICAL.
C1_Witness ==
    /\ call.fn = "get_status_level"
    /\ call.progress = 90 * PScale
    /\ ret = "CRITICAL"

\* Rows of the fleet table d that are in maintenance, per category.
InMaintenance(d, category) == d[<<category, "Bakimda">>]

\* C9: calculate_hangar_status of logic.py sets is_full exactly when at least
\* 5 WIDE or CARGO aircraft are in maintenance or at least 15 aircraft are
\* in maintenance in all; with exactly 5 wide-body aircraft in maintenance
\* is_full is true and check_hangar_availability reports no slot for WIDE.
C9_IsFull ==
    (call.fn = "calculate_hangar_status" /\ call.impl = "logic") =>
        LET wide == InMaintenance(call.df, "WIDE") + InMaintenance(call.df, "CARGO")
            total == wide + InMaintenance(call.df, "NARROW")
        IN  /\ ret.is_full <=> (wide >= 5 \/ total >= 15)
            /\ wide = 5 => (ret.is_full /\ ~check_hangar_availability(ret, "WIDE")[1])

\* The hangar status of a fleet with exactly 5 wide-body aircraft in
\* maintenance has been computed by logic.py.
C9_Witness ==
    /\ call.fn = "calculate_hangar_status"
    /\ call.impl = "logic"
    /\ InMaintenance(call.df, "WIDE") + InMaintenance(call.df, "CARGO") = 5
    /\ ret.is_full

\* C10: in every HangarStatus computed, wide_body_available is
\* max(5 - wide_body_count, 0) and narrow_body_available is
\* max(12 - narrow_body_count, 0), and neither is negative.
C10_AvailableClamped ==
    call.fn = "calculate_hangar_status" =>
        /\ ret.wide_body_available = Max(5 - ret.wide_body_count, 0)
        /\ ret.narrow_body_available = Max(12 - ret.narrow_body_count, 0)
        /\ ret.wide_body_available >= 0
        /\ ret.narrow_body_available >= 0

----------------------------------------------------------------------------
(* Claims on the status calculator and on the selector *)

Checks == {"A", "B", "C", "D"}

\* The progress the called implementation computes for a check, before it
\* is rounded for the report.
Progress(impl, check) ==
    CASE check = "A" -> a_progress(aircraft_data)
      [] check = "B" -> b_progress(aircraft_data, current_date)
      [] check = "C" -> IF impl = "logic" THEN logic_c_progress(aircraft_data, current_date)
                        ELSE app_c_progress(aircraft_data, current_date)
      [] check = "D" -> d_progress(aircraft_data, current_date)

Evaluated == call.fn = "calculate_maintenance_status"

\* C2: a check is deferred exactly when it is C or D, a hangar state was
\* supplied, its progress is at or above its deferral threshold (C: 85,
\* D: 80) and check_hangar_availability reports no slot for the aircraft's
\* category; A and B are never deferred, and nothing is without a hangar.
C2_DeferralRule ==
    Evaluated =>
        \A x \in Checks :
            DictGet(ret, x).is_deferred <=>
                /\ x \in {"C", "D"}
                /\ ~IsNone(call.hangar_status)
                /\ Progress(call.impl, x) >= (IF x = "C" THEN 85 ELSE 80) * PScale
                /\ ~HangarAvailability(call.impl, Value(call.hangar_status),
                                       aircraft_data.Kategori)[1]

\* A C check at or above 85 % has been deferred for lack of a slot.
C2_Witness ==
    /\ Evaluated
    /\ DictGet(ret, "C").is_deferred
    /\ ~DictGet(ret, "D").is_deferred

\* C3: in every status returned, is_deferred implies status DEFERRED, status
\* DEFERRED occurs only with is_deferred, and a status that is not deferred
\* is the classification of the check's progress.
C3_DeferredStatus ==
    Evaluated =>
        \A x \in Checks :
            LET st == DictGet(ret, x)
            IN  /\ st.is_deferred => st.status = "DEFERRED"
                /\ st.status = "DEFERRED" => st.is_deferred
                /\ ~st.is_deferred => st.status = get_status_level(Progress(call.impl, x))

\* A deferred D check has been returned with status DEFERRED.
C3_Witness ==
    /\ Evaluated
    /\ DictGet(ret, "D").is_deferred
    /\ DictGet(ret, "D").status = "DEFERRED"

\* C4: the progress_percent of each of the four checks is between 0 and 100
\* (here in tenths of a percent), for every snapshot and reference date.
C4_ProgressClamped ==
    Evaluated =>
        \A x \in Checks :
            /\ DictGet(ret, x).progress_percent >= 0
            /\ DictGet(ret, x).progress_percent <= 1000

\* C8: get_most_critical_maintenance returns the entry with the highest
\* progress_percent and, among several entries with the highest
\* progress_percent, the first in the order A, B, C, D, whatever the order
\* in which the entries were inserted.
C8_FirstOfHighest ==
    call.fn = "get_most_critical_maintenance" =>
        LET d == call.maintenance_results
            highest == CHOOSE x \in DictKeys(d) :
                \A y \in DictKeys(d) :
                    DictGet(d, y).progress_percent <= DictGet(d, x).progress_percent
            first == CheckLetters[
                CHOOSE i \in 1..4 :
                    /\ DictGet(d, CheckLetters[i]).progress_percent
                           = DictGet(d, highest).progress_percent
                    /\ \A j \in 1..(i - 1) :
                           DictGet(d, CheckLetters[j]).progress_percent
                               < DictGet(d, highest).progress_percent]
        IN  ret = <<first, DictGet(d, first)>>

----------------------------------------------------------------------------
(* Claims on the finding generator *)

SameFinding(f, g) ==
    /\ f.has_finding = g.has_finding
    /\ f.finding_type = g.finding_type
    /\ f.extra_days = g.extra_days

\* C5: two calls of the finding generator with the same seed key return the
\* same (has_finding, finding_type, extra_days), whether the two calls were
\* made in one process or in two.
C5_SameKeySameFinding ==
    \A i, j \in DOMAIN history :
        ( /\ history[i].fn = "simulate_non_routine_finding"
          /\ history[j].fn = "simulate_non_routine_finding"
          /\ history[i].impl = history[j].impl
          /\ ~IsNone(history[i].key)
          /\ history[i].key = history[j].key )
        => SameFinding(history[i].ret, history[j].ret)

\* C6: two calls of calculate_maintenance_status with apply_stochastic=True
\* for the same aircraft, hangar state and reference date return the same
\* findings and adjusted durations, whatever calls were made before each.
C6_DependsOnArgumentsOnly ==
    \A i, j \in DOMAIN history :
        ( /\ history[i].fn = "calculate_maintenance_status"
          /\ history[j].fn = "calculate_maintenance_status"
          /\ history[i].impl = history[j].impl
          /\ history[i].key = history[j].key )
        => \A x \in Checks :
               /\ SameFinding(DictGet(history[i].ret, x).non_routine_finding,
                              DictGet(history[j].ret, x).non_routine_finding)
               /\ DictGet(history[i].ret, x).adjusted_duration_days
                      = DictGet(history[j].ret, x).adjusted_duration_days

\* C7: a call of app.py's calculate_maintenance_status that ran in a thread,
\* its steps interleaved with those of a call for another aircraft, returns
\* what the same call returns when it runs alone.
C7_InterleavedAsSequential ==
    \A t \in DOMAIN threads :
        threads[t].pc = "done" =>
            Value(threads[t].ret) =
                app_calculate_maintenance_status(threads[t].aircraft_data, current_date,
                    hangar_status, TRUE, salt, rng).results

----------------------------------------------------------------------------
(* Claims on the counts of the hangar tracker *)

\* calculate_hangar_status of the implementation that was called.
HangarStatusOf(impl, d) ==
    IF impl = "app" THEN app_calculate_hangar_status(d)
    ELSE logic_calculate_hangar_status(d)

\* C11: calculate_hangar_status counts only the aircraft in maintenance:
\* wide_body_count is the number of in-maintenance WIDE or CARGO aircraft,
\* narrow_body_count the number of in-maintenance NARROW aircraft,
\* total_count their sum, and the result is the same whatever the number of
\* active aircraft of any category in the fleet.
C11_CountsInMaintenanceOnly ==
    call.fn = "calculate_hangar_status" =>
        /\ ret.wide_body_count
               = InMaintenance(call.df, "WIDE") + InMaintenance(call.df, "CARGO")
        /\ ret.narrow_body_count = InMaintenance(call.df, "NARROW")
        /\ ret.total_count = ret.wide_body_count + ret.narrow_body_count
        /\ \A category \in Categories, n \in 0..(MaxActive + 1) :
               HangarStatusOf(call.impl,
                   [call.df EXCEPT ![<<category, "Aktif">>] = n]) = ret

\* The tracker has been run on a fleet with active wide-body and narrow-body
\* aircraft next to aircraft in maintenance.
C11_Witness ==
    /\ call.fn = "calculate_hangar_status"
    /\ call.df[<<"WIDE", "Aktif">>] > 0
    /\ call.df[<<"NARROW", "Aktif">>] > 0
    /\ ret.wide_body_count = 2
    /\ ret.narrow_body_count = 3
    /\ ret.total_count = 5

\* C12: check_hangar_availability answers available exactly when
\* wide_body_available > 0 for WIDE and CARGO, and exactly when
\* narrow_body_available > 0 for every other category; the answer is the
\* same whatever is_full, total_count and utilization_percent are.
C12_AvailabilityRule ==
    call.fn = "check_hangar_availability" =>
        LET hs == call.hangar_status
            category == call.aircraft_category
        IN  /\ category \in {"WIDE", "CARGO"} => (ret[1] <=> hs.wide_body_available > 0)
            /\ category \notin {"WIDE", "CARGO"} => (ret[1] <=> hs.narrow_body_available > 0)
            /\ \A full \in BOOLEAN, total \in {0, hs.total_count, HANGAR_CAPACITY.total},
                  utilization \in {0, hs.utilization_percent, 1000} :
                   HangarAvailability(call.impl,
                       [hs EXCEPT !.is_full = full, !.total_count = total,
                                  !.utilization_percent = utilization],
                       category)[1] = ret[1]

\* A hangar flagged full (15 aircraft in maintenance) still has a narrow-body
\* slot, and a category outside the three has been given it.
C12_Witness ==
    /\ call.fn = "check_hangar_availability"
    /\ call.hangar_status.is_full
    /\ call.hangar_status.total_count >= HANGAR_CAPACITY.total
    /\ call.aircraft_category = "REGIONAL"
    /\ ret[1]

----------------------------------------------------------------------------
(* Claims on the fields of the four statuses *)

\* The results of the called implementation for the aircraft and date of the
\* state, with hangar state hs and without the stochastic model.
ResultsOf(impl, hs) ==
    IF impl = "app"
    THEN app_calculate_maintenance_status(aircraft_data, current_date, hs, FALSE, salt, rng).results
    ELSE logic_calculate_maintenance_status(aircraft_data, current_date, hs, FALSE, rng).results

ActionThreshold == [A |-> 90, B |-> 90, C |-> 85, D |-> 80]

\* C13: action_required of a check is true exactly when the check's progress
\* is at or above its threshold (A and B: 90, C: 85, D: 80), and it is what
\* the same call returns without a hangar state, deferred or not.
C13_ActionRequired ==
    Evaluated =>
        \A x \in Checks :
            /\ DictGet(ret, x).action_required
                   <=> Progress(call.impl, x) >= ActionThreshold[x] * PScale
            /\ DictGet(ret, x).action_required
                   = DictGet(ResultsOf(call.impl, None), x).action_required

\* A deferred C check asks for action, next to an A check below 90 that
\* does not.
C13_Witness ==
    /\ Evaluated
    /\ DictGet(ret, "C").is_deferred
    /\ DictGet(ret, "C").action_required
    /\ Progress(call.impl, "C") < 90 * PScale
    /\ ~DictGet(ret, "A").action_required

\* The classification of a progress p (in units of 1/PScale percent).
Classified(p) ==
    IF p >= 90 * PScale THEN "CRITICAL"
    ELSE IF p >= 75 * PScale THEN "WARNING"
    ELSE "OK"

\* C14: the A-check progress is max(FH_used / 600, FC_used / 400) x 100; it
\* is reported capped at 100 (to one decimal), and the A-check status is
\* the classification of the uncapped progress.  With 520 FH and 340 FC the
\* progress is 86.67 % (260/3), reported 86.7, and the status is WARNING.
C14_ACheckProgress ==
    Evaluated =>
        LET a == DictGet(ret, "A")
            fh == aircraft_data.SonBakimdanBeriFH
            fc == aircraft_data.SonBakimdanBeriFC
            p == Max(Pct(fh, 600), Pct(fc, 400))
        IN  /\ Progress(call.impl, "A") = p
            /\ a.progress_percent = RoundHalfEven(10 * Min(p, 100 * PScale), PScale)
            /\ a.progress_percent <= 1000
            /\ a.status = Classified(p)
            /\ (fh = 520 /\ fc = 340) =>
                   /\ 3 * p = 260 * PScale
                   /\ a.progress_percent = 867
                   /\ a.status = "WARNING"

\* The A check of the test aircraft (520 FH, 340 FC) has been computed.
C14_Witness ==
    /\ Evaluated
    /\ aircraft_data.SonBakimdanBeriFH = 520
    /\ aircraft_data.SonBakimdanBeriFC = 340
    /\ DictGet(ret, "A").progress_percent = 867
    /\ DictGet(ret, "A").status = "WARNING"

\* C15: for a daily flight-hour rate > 0 (kept in tenths of an hour), the
\* A-check remaining_days is the floor of (600 - FH_used) / rate, also when
\* FH_used is above 600 and the quotient is negative and no integer.
C15_RemainingDaysFloor ==
    (Evaluated /\ aircraft_data.GunlukOrtFH > 0) =>
        DictGet(ret, "A").remaining_days
            = ((600 - aircraft_data.SonBakimdanBeriFH) * 10) \div aircraft_data.GunlukOrtFH

\* C16: for a daily flight-hour rate that is zero or negative the call
\* returns all four statuses, the A-check remaining_days is the sentinel 999
\* and the A-check due date is 999 days after the reference date.
C16_DegenerateRate ==
    (Evaluated /\ aircraft_data.GunlukOrtFH <= 0) =>
        /\ Len(ret) = 4
        /\ DictKeys(ret) = {"A", "B", "C", "D"}
        /\ DictGet(ret, "A").remaining_days = 999
        /\ DictGet(ret, "A").next_due_date = current_date + 999

\* An aircraft with a negative rate and flight hours left has been evaluated.
C16_Witness ==
    /\ Evaluated
    /\ aircraft_data.GunlukOrtFH < 0
    /\ aircraft_data.SonBakimdanBeriFH = 450
    /\ DictGet(ret, "A").remaining_days = 999

\* A progress value as it is reported: to one decimal, in tenths of a percent.
Reported(p) == RoundHalfEven(10 * p, PScale)

\* C17: for every non-negative number of days elapsed, the B progress is
\* min(100, days_since_last_check / 180 x 100) with remaining_days
\* max(0, 180 - days_since_last_check), and the D progress is
\* min(100, days_since_last_heavy_check / 2190 x 100) with remaining_days
\* max(0, 2190 - days_since_last_heavy_check).
C17_DayBasedChecks ==
    Evaluated =>
        LET b_days == current_date - aircraft_data.SonBakimTarihi
            d_days == current_date - aircraft_data.SonDCheckTarihi
            b == DictGet(ret, "B")
            d == DictGet(ret, "D")
        IN  /\ b_days >= 0 =>
                /\ Progress(call.impl, "B") = Min(100 * PScale, Pct(b_days, 180))
                /\ b.progress_percent = Reported(Min(100 * PScale, Pct(b_days, 180)))
                /\ b.remaining_days = Max(0, 180 - b_days)
            /\ d_days >= 0 =>
                /\ Progress(call.impl, "D") = Min(100 * PScale, Pct(d_days, 2190))
                /\ d.progress_percent = Reported(Min(100 * PScale, Pct(d_days, 2190)))
                /\ d.remaining_days = Max(0, 2190 - d_days)

\* A D check past its 2190 days (capped at 100 %, no day left) next to a B
\* check within its 180 days.
C17_Witness ==
    /\ Evaluated
    /\ current_date - aircraft_data.SonDCheckTarihi = 2500
    /\ DictGet(ret, "D").progress_percent = 1000
    /\ DictGet(ret, "D").remaining_days = 0
    /\ current_date - aircraft_data.SonBakimTarihi = 61
    /\ DictGet(ret, "B").progress_percent = 339
    /\ DictGet(ret, "B").remaining_days = 119

\* C18: the C-check progress is
\* min(100, max(FH_used x 2 / 6000, days_since_last_check / 730) x 100),
\* with twice the A-check flight hours as the flight-hour proxy, and the
\* C-check remaining_days is max(0, 730 - days_since_last_check).
C18_CCheckProgress ==
    Evaluated =>
        LET days == current_date - aircraft_data.SonBakimTarihi
            p == Min(100 * PScale,
                     Max(Pct(aircraft_data.SonBakimdanBeriFH * 2, 6000), Pct(days, 730)))
            c == DictGet(ret, "C")
        IN  /\ c.progress_percent = Reported(p)
            /\ Min(100 * PScale, Progress(call.impl, "C")) = p
            /\ c.status # "DEFERRED" => c.status = Classified(p)
            /\ c.remaining_days = Max(0, 730 - days)

\* A C check led by the flight-hour proxy: 2 x 2700 FH of 6000 is 90 %,
\* 61 days of 730 is 8.4 %.
C18_Witness ==
    /\ Evaluated
    /\ aircraft_data.SonBakimdanBeriFH = 2700
    /\ current_date - aircraft_data.SonBakimTarihi = 61
    /\ DictGet(ret, "C").progress_percent = 900
    /\ DictGet(ret, "C").remaining_days = 669

----------------------------------------------------------------------------
(* Claims on the findings and on the durations *)

\* C19: every finding the generator returns is either present, of type
\* CORROSION, FATIGUE_CRACK or SYSTEM_FAILURE, with 1 to 3 extra days, or
\* absent, of type NONE, with 0 extra days.
C19_FindingKinds ==
    call.fn = "simulate_non_routine_finding" =>
        \/ /\ ret.has_finding
           /\ ret.finding_type \in {"CORROSION", "FATIGUE_CRACK", "SYSTEM_FAILURE"}
           /\ ret.extra_days \in 1..3
        \/ /\ ~ret.has_finding
           /\ ret.finding_type = "NONE"
           /\ ret.extra_days = 0

\* C20: in every status returned, adjusted_duration_days is
\* base_duration_days (the planned duration of the check) plus the
\* extra_days of the status's finding; it is never below base_duration_days
\* and equals it exactly when the finding is absent.
C20_AdjustedDuration ==
    Evaluated =>
        \A x \in Checks :
            LET st == DictGet(ret, x)
            IN  /\ st.base_duration_days = MAINTENANCE_LIMITS[x].duration_days
                /\ st.adjusted_duration_days
                       = st.base_duration_days + st.non_routine_finding.extra_days
                /\ st.adjusted_duration_days >= st.base_duration_days
                /\ (st.adjusted_duration_days = st.base_duration_days)
                       <=> ~st.non_routine_finding.has_finding

\* A stochastic evaluation has returned a check with a finding next to a
\* check without one.
C20_Witness ==
    /\ Evaluated
    /\ call.apply_stochastic
    /\ \E x, y \in Checks :
           /\ DictGet(ret, x).non_routine_finding.has_finding
           /\ DictGet(ret, x).adjusted_duration_days > DictGet(ret, x).base_duration_days
           /\ ~DictGet(ret, y).non_routine_finding.has_finding
           /\ DictGet(ret, y).adjusted_duration_days = DictGet(ret, y).base_duration_days

----------------------------------------------------------------------------
(* Claims on the stochastic flag and on the two implementations *)

\* C21: with apply_stochastic=False each of the four checks carries an
\* absent finding and adjusted_duration_days = base_duration_days; and the
\* flag changes nothing else: progress_percent, status, action_required,
\* remaining_days, next_due_date and is_deferred of a call are those of the
\* same call made with apply_stochastic=False.
C21_StochasticFlag ==
    Evaluated =>
        \A x \in Checks :
            LET st == DictGet(ret, x)
                plain == DictGet(ResultsOf(call.impl, call.hangar_status), x)
            IN  /\ ~call.apply_stochastic =>
                    /\ ~st.non_routine_finding.has_finding
                    /\ st.non_routine_finding.finding_type = "NONE"
                    /\ st.non_routine_finding.extra_days = 0
                    /\ st.adjusted_duration_days = st.base_duration_days
                /\ st.progress_percent = plain.progress_percent
                /\ st.status = plain.status
                /\ st.action_required = plain.action_required
                /\ st.remaining_days = plain.remaining_days
                /\ st.next_due_date = plain.next_due_date
                /\ st.is_deferred = plain.is_deferred

\* A stochastic call has returned a B check with a finding, next to a
\* deferred check.
C21_Witness ==
    /\ Evaluated
    /\ call.apply_stochastic
    /\ DictGet(ret, "B").non_routine_finding.has_finding
    /\ \E x \in Checks : DictGet(ret, x).is_deferred

----------------------------------------------------------------------------
(* Snapshots with an absent attribute *)

\* aircraft_data is a dict: reading a key it does not hold raises KeyError,
\* and a key that is never read may be absent.
SnapshotAttributes == DOMAIN TestAircraft

\* The dict ac without the key k.
Without(ac, k) == [f \in (DOMAIN ac) \ {k} |-> ac[f]]

\* The keys both calculators read before the first check is computed.
AlwaysRead ==
    {"SonBakimTarihi", "SonDCheckTarihi", "GunlukOrtFH",
     "SonBakimdanBeriFH", "SonBakimdanBeriFC"}

\* ac with a placeholder under every absent key, for the paths of the
\* calculators that do not read those keys.
Completed(ac) ==
    [f \in SnapshotAttributes |-> IF f \in DOMAIN ac THEN ac[f] ELSE TestAircraft[f]]

\* The check ("C" or "D") whose deferral block reads aircraft_data["Kategori"]
\* first, given the progress of the two checks; "" when neither does.
KategoriReadAt(hs, c_prog, d_prog) ==
    IF IsNone(hs) THEN ""
    ELSE IF c_prog >= DeferralThreshold.C * PScale THEN "C"
    ELSE IF d_prog >= DeferralThreshold.D * PScale THEN "D"
    ELSE ""

\* The generator state after n calls of logic.py's simulate_non_routine_finding().
RECURSIVE LogicRngAfter(_, _)
LogicRngAfter(s, n) ==
    IF n = 0 THEN s
    ELSE LogicRngAfter(logic_simulate_non_routine_finding(None, s).rng, n - 1)

\* logic.py: calculate_maintenance_status on a dict that may lack keys.
\* raised tells whether the call ended in KeyError; results is None then.
logic_try_calculate_maintenance_status(ac, date, hs, apply_stochastic, s) ==
    IF ~(AlwaysRead \subseteq DOMAIN ac)
    THEN [raised |-> TRUE, results |-> None, rng |-> s]
    ELSE LET at == KategoriReadAt(hs, logic_c_progress(ac, date), d_progress(ac, date))
         IN  IF at # "" /\ "Kategori" \notin DOMAIN ac
             THEN [raised |-> TRUE, results |-> None,
                   rng |-> IF apply_stochastic
                           THEN LogicRngAfter(s, IF at = "C" THEN 3 ELSE 4)
                           ELSE s]
             ELSE LET r == logic_calculate_maintenance_status(Completed(ac), date, hs,
                               apply_stochastic, s)
                  IN  [raised |-> FALSE, results |-> Some(r.results), rng |-> r.rng]

\* app.py: calculate_maintenance_status on a dict that may lack keys.
app_try_calculate_maintenance_status(ac, date, hs, apply_stochastic, slt, s) ==
    IF ~(AlwaysRead \subseteq DOMAIN ac)
    THEN [raised |-> TRUE, results |-> None, rng |-> s]
    ELSE IF apply_stochastic /\ "KuyrukNo" \notin DOMAIN ac
    THEN [raised |-> TRUE, results |-> None, rng |-> s]
    ELSE LET at == KategoriReadAt(hs, app_c_progress(ac, date), d_progress(ac, date))
         IN  IF at # "" /\ "Kategori" \notin DOMAIN ac
             THEN [raised |-> TRUE, results |-> None,
                   rng |-> IF apply_stochastic
                           THEN app_simulate_non_routine_finding(ac.KuyrukNo, at, slt).rng
                           ELSE s]
             ELSE LET r == app_calculate_maintenance_status(Completed(ac), date, hs,
                               apply_stochastic, slt, s)
                  IN  [raised |-> FALSE, results |-> Some(r.results), rng |-> r.rng]

\* The due and the test aircraft, whole or with one attribute absent.
PartialAircraft ==
    LET whole == DueAircraft \cup WithCategories({TestAircraft})
    IN  whole \cup {Without(a, k) : a \in whole, k \in SnapshotAttributes}

InitMissing ==
    /\ df \in EvalFleets
    /\ aircraft_data \in PartialAircraft
    /\ rng = FindingState
    /\ salt \in Salts
    /\ current_date = 0
    /\ hangar_status = None
    /\ call = [fn |-> "start"]
    /\ ret = None
    /\ calls = 0
    /\ threads = <<>>
    /\ history = <<>>

TryEvaluate ==
    \E apply_stochastic \in BOOLEAN :
        LET r == logic_try_calculate_maintenance_status(aircraft_data, current_date,
                     hangar_status, apply_stochastic, rng)
        IN  /\ calls < MaxCalls
            /\ calls' = calls + 1
            /\ call' = [fn |-> "calculate_maintenance_status", impl |-> "logic",
                        hangar_status |-> hangar_status,
                        apply_stochastic |-> apply_stochastic,
                        raised |-> r.raised]
            /\ ret' = r.results
            /\ rng' = r.rng
            /\ UNCHANGED <<df, aircraft_data, current_date, hangar_status, salt,
                           threads, history>>

TryEvaluateApp ==
    \E apply_stochastic \in BOOLEAN :
        LET r == app_try_calculate_maintenance_status(aircraft_data, current_date,
                     hangar_status, apply_stochastic, salt, rng)
        IN  /\ calls < MaxCalls
            /\ calls' = calls + 1
            /\ call' = [fn |-> "calculate_maintenance_status", impl |-> "app",
                        hangar_status |-> hangar_status,
                        apply_stochastic |-> apply_stochastic,
                        raised |-> r.raised]
            /\ ret' = r.results
            /\ rng' = r.rng
            /\ UNCHANGED <<df, aircraft_data, current_date, hangar_status, salt,
                           threads, history>>

NextMissing ==
    \/ CalculateHangarStatus
    \/ TryEvaluate
    \/ TryEvaluateApp

SpecMissing == InitMissing /\ [][NextMissing]_vars

\* C22: calculate_maintenance_status fails, returning no result map,
\* whenever one of the snapshot attributes (identifier, category, flight
\* hours, flight cycles, the two dates, daily rate, operational state) is
\* absent, whatever the other values, the hangar argument and the flag.
C22_FailsOnAbsentAttribute ==
    (call.fn = "calculate_maintenance_status" /\ DOMAIN aircraft_data # SnapshotAttributes) =>
        (call.raised /\ IsNone(ret))

----------------------------------------------------------------------------
\* C23: the two implementations of calculate_hangar_status apply one
\* fullness rule: for every fleet they return the same is_full, also when
\* 15 or more aircraft are in maintenance and fewer than 5 of them are
\* wide-body or cargo.
C23_SameFullnessRule ==
    call.fn = "calculate_hangar_status" =>
        /\ ret.is_full = HangarStatusOf("logic", call.df).is_full
        /\ ret.is_full = HangarStatusOf("app", call.df).is_full

----------------------------------------------------------------------------
\* The fields of a MaintenanceStatus that both implementations compute from
\* the aircraft, the reference date and the hangar state.
ComputedFields(st) ==
    [progress_percent |-> st.progress_percent,
     status |-> st.status,
     action_required |-> st.action_required,
     remaining_fh |-> st.remaining_fh,
     remaining_fc |-> st.remaining_fc,
     remaining_days |-> st.remaining_days,
     next_due_date |-> st.next_due_date,
     is_deferred |-> st.is_deferred]

\* C24: with apply_stochastic=False the calculate_maintenance_status of
\* logic.py and of app.py return, for the same aircraft, reference date and
\* hangar state and for each of A, B, C and D, the same progress_percent,
\* status, action_required, remaining_fh, remaining_fc, remaining_days,
\* next_due_date and is_deferred, also where a raw progress exceeds 100.
C24_SameComputedFields ==
    (Evaluated /\ ~call.apply_stochastic) =>
        \A x \in Checks :
            /\ ComputedFields(DictGet(ret, x))
                   = ComputedFields(DictGet(ResultsOf("logic", call.hangar_status), x))
            /\ ComputedFields(DictGet(ret, x))
                   = ComputedFields(DictGet(ResultsOf("app", call.hangar_status), x))

C24_Witness ==
    /\ Evaluated
    /\ ~call.apply_stochastic
    /\ call.impl = "app"
    /\ app_c_progress(aircraft_data, current_date) > 105 * PScale
    /\ DictGet(ret, "C").progress_percent = 1000
    /\ DictGet(ret, "C").is_deferred

----------------------------------------------------------------------------
\* C25: get_most_critical_maintenance gives priority to CRITICAL checks,
\* then to WARNING checks, then to the highest progress: when at least one of
\* the four statuses is CRITICAL the returned status is CRITICAL, and
\* otherwise when at least one is WARNING the returned status is WARNING.
C25_StatusPriority ==
    call.fn = "get_most_critical_maintenance" =>
        LET d == call.maintenance_results
            some(level) == \E x \in DictKeys(d) : DictGet(d, x).status = level
        IN  /\ some("CRITICAL") => ret[2].status = "CRITICAL"
            /\ (~some("CRITICAL") /\ some("WARNING")) => ret[2].status = "WARNING"

----------------------------------------------------------------------------
\* C26: in every non-deferred MaintenanceStatus the reported fields agree:
\* status is get_status_level of the reported progress_percent (rounded to
\* one decimal) and action_required is progress_percent >= the check's
\* action threshold; a D check never reports 90.0 with WARNING or 80.0 with
\* action_required false.
C26_ReportedFieldsAgree ==
    Evaluated =>
        \A x \in Checks :
            LET st == DictGet(ret, x)
            IN  ~st.is_deferred =>
                    /\ st.status = get_status_level((st.progress_percent * PScale) \div 10)
                    /\ st.action_required = (st.progress_percent >= 10 * ActionThreshold[x])

----------------------------------------------------------------------------
\* C27: for an aircraft whose counters are non-negative the remaining_days
\* of each of the four checks is >= 0, so that the due date is never before
\* the reference date, also when the usage exceeds the limit (FH_used > 600
\* for the A check).
C27_RemainingDaysNonNegative ==
    (/\ Evaluated
     /\ aircraft_data.SonBakimdanBeriFH >= 0
     /\ aircraft_data.SonBakimdanBeriFC >= 0) =>
        \A x \in Checks :
            /\ DictGet(ret, x).remaining_days >= 0
            /\ DictGet(ret, x).next_due_date >= current_date

----------------------------------------------------------------------------
\* C28: for each of the four checks, whenever the reported progress_percent
\* is 100 the remaining_days is 0, also when the limit is reached through
\* flight cycles (A check) or through the flight-hour proxy (C check) and
\* not through the counter the remaining days are computed from.
C28_DueWhenComplete ==
    Evaluated =>
        \A x \in Checks :
            DictGet(ret, x).progress_percent = 1000 => DictGet(ret, x).remaining_days = 0

----------------------------------------------------------------------------
(* The dashboard: hangar state of the fleet, then one aircraft of the fleet *)

\* The rows main() can select: an aircraft of either operational state,
\* with the counters of the D check around its thresholds.
FleetAircraft ==
    {[a EXCEPT !.Durum = durum] : a \in WithCategories(SliceD), durum \in Durumlar}

\* main(): df is the fleet table and aircraft_data one of its rows.
InitMain ==
    /\ df \in EvalFleets
    /\ aircraft_data \in FleetAircraft
    /\ df[<<aircraft_data.Kategori, aircraft_data.Durum>>] >= 1
    /\ rng = FindingState
    /\ salt = 0
    /\ current_date = 0
    /\ hangar_status = None
    /\ call = [fn |-> "start"]
    /\ ret = None
    /\ calls = 0
    /\ threads = <<>>
    /\ history = <<>>

NextMain ==
    \/ CalculateHangarStatus
    \/ CalculateHangarStatusApp
    \/ Evaluate
    \/ EvaluateApp

SpecMain == InitMain /\ [][NextMain]_vars

\* The non-stochastic results of either implementation for the aircraft ac.
ResultsFor(impl, ac, hs) ==
    IF impl = "app"
    THEN app_calculate_maintenance_status(ac, current_date, hs, FALSE, salt, rng).results
    ELSE logic_calculate_maintenance_status(ac, current_date, hs, FALSE, rng).results

\* C29: the deferral decision ignores the operational state of the evaluated
\* aircraft. The hangar counts of the fleet include the aircraft when it is
\* in maintenance; an in-maintenance and an active aircraft of the same
\* category and progress get the same is_deferred; and an aircraft that
\* occupies one of the 5 wide-body slots is deferred for lack of a slot.
C29_OwnStateIgnored ==
    /\ (~IsNone(hangar_status) /\ aircraft_data.Durum = "Bakimda") =>
           LET hs == Value(hangar_status)
           IN  IF aircraft_data.Kategori = "NARROW"
               THEN hs.narrow_body_count = df[<<"NARROW", "Bakimda">>]
               ELSE hs.wide_body_count = df[<<"WIDE", "Bakimda">>] + df[<<"CARGO", "Bakimda">>]
    /\ Evaluated =>
           /\ \A x \in Checks, durum \in Durumlar :
                  DictGet(ret, x).is_deferred
                      = DictGet(ResultsFor(call.impl, [aircraft_data EXCEPT !.Durum = durum],
                                           call.hangar_status), x).is_deferred
           /\ (/\ ~IsNone(call.hangar_status)
               /\ aircraft_data.Durum = "Bakimda"
               /\ aircraft_data.Kategori \in {"WIDE", "CARGO"}
               /\ Value(call.hangar_status).wide_body_count = HANGAR_CAPACITY.wide_body
               /\ d_progress(aircraft_data, current_date) >= DeferralThreshold.D * PScale) =>
                  /\ DictGet(ret, "D").is_deferred
                  /\ DictGet(ret, "D").status = "DEFERRED"

C29_Witness ==
    /\ Evaluated
    /\ ~IsNone(call.hangar_status)
    /\ aircraft_data.Durum = "Bakimda"
    /\ aircraft_data.Kategori = "WIDE"
    /\ Value(call.hangar_status).wide_body_count = HANGAR_CAPACITY.wide_body
    /\ DictGet(ret, "D").is_deferred

----------------------------------------------------------------------------
(* One snapshot evaluated day after day *)

\* Days followed after the last maintenance.
MaxDay == 800

\* Snapshots whose last maintenance is on day 0: the D check 1400 days
\* before it or 5 days after it, the flight hours below or past the C-check
\* deferral threshold.
DailyAircraft ==
    WithCategories({[TestAircraft EXCEPT !.SonBakimTarihi = 0, !.SonDCheckTarihi = d,
                                         !.SonBakimdanBeriFH = fh] :
                        d \in {-1400, 5}, fh \in {520, 2700}})

\* The reference date starts at the last-maintenance date.
InitDaily ==
    /\ df \in EvalFleets
    /\ aircraft_data \in DailyAircraft
    /\ current_date = aircraft_data.SonBakimTarihi
    /\ rng = FindingState
    /\ salt = 0
    /\ hangar_status = None
    /\ call = [fn |-> "start"]
    /\ ret = None
    /\ calls = 0
    /\ threads = <<>>
    /\ history = <<>>

\* calculate_maintenance_status with the same snapshot and hangar state, on
\* the last-maintenance date first and one day later at each further call.
DailyEvaluate ==
    \E impl \in {"logic", "app"} :
        /\ current_date < aircraft_data.SonBakimTarihi + MaxDay
        /\ current_date' = IF Evaluated THEN current_date + 1 ELSE current_date
        /\ call' = [fn |-> "calculate_maintenance_status", impl |-> impl,
                    hangar_status |-> hangar_status,
                    apply_stochastic |-> FALSE]
        /\ ret' = IF impl = "app"
                  THEN app_calculate_maintenance_status(aircraft_data, current_date',
                           hangar_status, FALSE, salt, rng).results
                  ELSE logic_calculate_maintenance_status(aircraft_data, current_date',
                           hangar_status, FALSE, rng).results
        /\ UNCHANGED <<df, aircraft_data, hangar_status, rng, salt, calls,
                       threads, history>>

NextDaily ==
    \/ CalculateHangarStatus
    \/ DailyEvaluate

SpecDaily == InitDaily /\ [][NextDaily]_vars

\* C30: with the snapshot and the hangar state fixed, from one day to the
\* next the progress_percent of B, C and D does not decrease, their
\* remaining_days does not increase, their action_required does not turn
\* from true to false, and a deferred C or D check stays deferred.
C30_MonotonicInDate ==
    [][(Evaluated /\ current_date' = current_date + 1) =>
            \A x \in {"B", "C", "D"} :
                /\ DictGet(ret', x).progress_percent >= DictGet(ret, x).progress_percent
                /\ DictGet(ret', x).remaining_days <= DictGet(ret, x).remaining_days
                /\ DictGet(ret, x).action_required => DictGet(ret', x).action_required
                /\ DictGet(ret, x).is_deferred => DictGet(ret', x).is_deferred]_vars

C30_Witness ==
    /\ Evaluated
    /\ current_date = aircraft_data.SonBakimTarihi + MaxDay
    /\ aircraft_data.SonBakimdanBeriFH = 520
    /\ DictGet(ret, "B").progress_percent = 1000
    /\ DictGet(ret, "C").is_deferred
    /\ DictGet(ret, "D").is_deferred

====
